---- MODULE Spec2Model ----
(***************************************************************************)
(* GitlabApiDriver (src/api-driver.js): a client that normalises a base    *)
(* URL at construction, builds one URL per operation, issues the request   *)
(* through axios and maps the settled promise to a return value or a       *)
(* thrown error.                                                           *)
(*                                                                         *)
(* JavaScript strings are sequences of one-character strings, JavaScript   *)
(* values are tagged records ([t |-> "number", v |-> 7], ...).  Every      *)
(* async method is cut at its await: one action up to the request, one     *)
(* action from the settled promise to the method's completion.  The        *)
(* console.log of verbose mode changes no field and sends nothing, and is  *)
(* left out.                                                               *)
(***************************************************************************)
EXTENDS Integers, Sequences, FiniteSets, TLC

VARIABLES
    baseUrlArg,  \* the baseUrl argument the constructor was given
    VERBOSE,     \* this.VERBOSE
    BASE_URL,    \* this.BASE_URL
    API_URL,     \* this.API_URL
    AT,          \* this.AT
    config,      \* this.config
    calls,       \* the method calls in progress or completed, by caller slot
    probe        \* last evaluation of a synchronous helper (getProjectUrl)

vars == <<baseUrlArg, VERBOSE, BASE_URL, API_URL, AT, config, calls, probe>>

configuration == <<VERBOSE, BASE_URL, API_URL, AT, config>>

----------------------------------------------------------------------------
(* Bounds *)

MaxCalls == 2      \* concurrently issued calls
MaxHost == 3       \* characters after the scheme in a constructor argument

----------------------------------------------------------------------------
(* JavaScript values *)

Undefined == [t |-> "undefined"]
Null == [t |-> "null"]
Num(n) == [t |-> "number", v |-> n]
Str(s) == [t |-> "string", v |-> s]
Bool(b) == [t |-> "boolean", v |-> b]
Obj(branch) == [t |-> "object", default_branch |-> branch]

(* String literals of the source *)
HTTP == <<"h", "t", "t", "p", ":", "/", "/">>
HTTPS == <<"h", "t", "t", "p", "s", ":", "/", "/">>
API_PATH == <<"/", "a", "p", "i", "/", "v", "4">>
S_projects == <<"/", "p", "r", "o", "j", "e", "c", "t", "s", "/">>
S_snippets == <<"/", "s", "n", "i", "p", "p", "e", "t", "s", "/">>
S_branches == <<"/", "r", "e", "p", "o", "s", "i", "t", "o", "r", "y",
                "/", "b", "r", "a", "n", "c", "h", "e", "s">>
S_files == <<"/", "r", "e", "p", "o", "s", "i", "t", "o", "r", "y",
             "/", "f", "i", "l", "e", "s", "/">>
S_commits == <<"/", "r", "e", "p", "o", "s", "i", "t", "o", "r", "y",
               "/", "c", "o", "m", "m", "i", "t", "s">>
S_raw == <<"/", "r", "a", "w">>
S_ref == <<"?", "r", "e", "f", "=">>
S_version == <<"/", "v", "e", "r", "s", "i", "o", "n">>
S_undefined == <<"u", "n", "d", "e", "f", "i", "n", "e", "d">>
S_null == <<"n", "u", "l", "l">>

StartsWith(s, p) == Len(s) >= Len(p) /\ SubSeq(s, 1, Len(p)) = p

EndsWith(s, p) == Len(s) >= Len(p) /\ SubSeq(s, Len(s) - Len(p) + 1, Len(s)) = p

(* String.prototype.replace(pattern, replacement) with a string pattern:   *)
(* the first occurrence only.                                              *)
RECURSIVE Replace(_, _, _)
Replace(s, pat, rep) ==
    IF Len(s) < Len(pat) THEN s
    ELSE IF StartsWith(s, pat) THEN rep \o SubSeq(s, Len(pat) + 1, Len(s))
    ELSE <<Head(s)>> \o Replace(Tail(s), pat, rep)

Digits == <<"0", "1", "2", "3", "4", "5", "6", "7", "8", "9">>

RECURSIVE NumToStr(_)
NumToStr(n) ==
    IF n < 10 THEN <<Digits[n + 1]>>
    ELSE NumToStr(n \div 10) \o <<Digits[(n % 10) + 1]>>

(* `${value}` in a template literal *)
Template(value) ==
    CASE value.t = "number" -> NumToStr(value.v)
      [] value.t = "string" -> value.v
      [] value.t = "null" -> S_null
      [] OTHER -> S_undefined

(* encodeURIComponent: every character but the unreserved ones becomes its *)
(* percent code.                                                           *)
Reserved == {"/", ":", " ", "?", "=", "%"}

PercentCode(ch) ==
    CASE ch = "/" -> <<"%", "2", "F">>
      [] ch = ":" -> <<"%", "3", "A">>
      [] ch = " " -> <<"%", "2", "0">>
      [] ch = "?" -> <<"%", "3", "F">>
      [] ch = "=" -> <<"%", "3", "D">>
      [] ch = "%" -> <<"%", "2", "5">>

RECURSIVE encodeURIComponent(_)
encodeURIComponent(s) ==
    IF s = <<>> THEN <<>>
    ELSE (IF Head(s) \in Reserved THEN PercentCode(Head(s)) ELSE <<Head(s)>>)
         \o encodeURIComponent(Tail(s))

----------------------------------------------------------------------------
(* util.js: trimTailingSlash, trimLeadingSlash, trimSlashes and            *)
(* resolveProjectIdentifier are imported by api-driver.js; they follow the *)
(* specification's sections 3 and 4.1.                                     *)

RECURSIVE trimTailingSlash(_)
trimTailingSlash(s) ==
    IF s # <<>> /\ s[Len(s)] = "/" THEN trimTailingSlash(SubSeq(s, 1, Len(s) - 1))
    ELSE s

RECURSIVE trimLeadingSlash(_)
trimLeadingSlash(s) ==
    IF s # <<>> /\ Head(s) = "/" THEN trimLeadingSlash(Tail(s))
    ELSE s

trimSlashes(s) == trimLeadingSlash(trimTailingSlash(s))

IsDigits(s) == s # <<>> /\ \A i \in 1..Len(s) : \E d \in 1..10 : Digits[d] = s[i]

DigitValue(ch) == (CHOOSE d \in 1..10 : Digits[d] = ch) - 1

RECURSIVE ParseInt(_)
ParseInt(s) ==
    IF Len(s) = 1 THEN DigitValue(s[1])
    ELSE 10 * ParseInt(SubSeq(s, 1, Len(s) - 1)) + DigitValue(s[Len(s)])

(* An integer, or an integer-valued string, is the numeric-id variant; any *)
(* other non-empty string is the path variant (the base URL prefix and the *)
(* outer slashes stripped); anything else populates neither.               *)
resolveProjectIdentifier(baseUrl, identifier) ==
    IF identifier.t = "number"
    THEN [id |-> identifier, path |-> Undefined]
    ELSE IF identifier.t = "string" /\ IsDigits(identifier.v)
    THEN [id |-> Num(ParseInt(identifier.v)), path |-> Undefined]
    ELSE IF identifier.t = "string" /\ identifier.v # <<>>
    THEN [id |-> Undefined,
          path |-> Str(trimSlashes(
                      IF StartsWith(identifier.v, baseUrl)
                      THEN SubSeq(identifier.v, Len(baseUrl) + 1, Len(identifier.v))
                      ELSE identifier.v))]
    ELSE [id |-> Undefined, path |-> Undefined]

----------------------------------------------------------------------------
(* Outcomes of a method: a returned value or a thrown error *)

InvalidIdentifier == "Error"          \* new Error(...), getProjectUrl
ApiError == "GitlabApiError"          \* new GitlabApiError(...)

Return(value) == [kind |-> "return", value |-> value]
Throw(error) == [kind |-> "throw", error |-> error]
Pending == [kind |-> "pending"]

----------------------------------------------------------------------------
(* constructor *)

NormalizeBaseUrl_NoRewrite(baseUrl) ==
    LET trimmed == trimTailingSlash(baseUrl)
    IN  IF ~StartsWith(trimmed, HTTPS) THEN HTTPS \o trimmed ELSE trimmed

NormalizeBaseUrl(baseUrl) ==
    LET trimmed == trimTailingSlash(baseUrl)
        rewritten == IF StartsWith(trimmed, HTTP)
                     THEN Replace(trimmed, HTTP, HTTPS)
                     ELSE trimmed
    IN  IF ~StartsWith(rewritten, HTTPS) THEN HTTPS \o rewritten ELSE rewritten

Constructor(baseUrl, accessToken, verbose) ==
    LET base == NormalizeBaseUrl(baseUrl)
    IN  [VERBOSE |-> verbose,
         BASE_URL |-> base,
         API_URL |-> base \o API_PATH,
         AT |-> accessToken,
         config |-> [headers |-> [PRIVATE_TOKEN |-> accessToken]]]

----------------------------------------------------------------------------
(* getProjectUrl *)

ProjectUrlFor_Unencoded(apiUrl, resolvedIdentifier) ==
    IF resolvedIdentifier.id # Undefined
    THEN Return(Str(apiUrl \o S_projects \o Template(resolvedIdentifier.id)))
    ELSE IF resolvedIdentifier.path # Undefined
    THEN Return(Str(apiUrl \o S_projects \o trimSlashes(resolvedIdentifier.path.v)))
    ELSE Throw(InvalidIdentifier)

ProjectUrlFor_NoThrow(apiUrl, resolvedIdentifier) ==
    IF resolvedIdentifier.id # Undefined
    THEN Return(Str(apiUrl \o S_projects \o Template(resolvedIdentifier.id)))
    ELSE Return(Str(apiUrl \o S_projects
                    \o encodeURIComponent(trimSlashes(Template(resolvedIdentifier.path)))))

ProjectUrlFor(apiUrl, resolvedIdentifier) ==
    IF resolvedIdentifier.id # Undefined
    THEN Return(Str(apiUrl \o S_projects \o Template(resolvedIdentifier.id)))
    ELSE IF resolvedIdentifier.path # Undefined
    THEN Return(Str(apiUrl \o S_projects
                    \o encodeURIComponent(trimSlashes(resolvedIdentifier.path.v))))
    ELSE Throw(InvalidIdentifier)

getProjectUrl(identifier) ==
    ProjectUrlFor(API_URL, resolveProjectIdentifier(BASE_URL, identifier))

----------------------------------------------------------------------------
(* axios: a request is sent, and its promise later settles.  The backend   *)
(* answers with a status and a body, or the connection fails; a status     *)
(* outside 2xx rejects the promise with e.response set, a connection       *)
(* failure rejects it with e.response undefined.                           *)

Statuses == {200, 201, 404, 500}
Branches == {<<"m">>, <<"d">>}
Body == Obj(Undefined)
ProjectBodies == {Obj(Str(b)) : b \in Branches}

Response(status, data) == [t |-> "response", status |-> status, data |-> data]
NetworkFailure == Undefined

Backend(bodies) == {Response(s, d) : s \in Statuses, d \in bodies} \cup {NetworkFailure}

Settled(raw) ==
    IF raw # NetworkFailure /\ raw.status >= 200 /\ raw.status < 300
    THEN [fulfilled |-> TRUE, res |-> raw]
    ELSE [fulfilled |-> FALSE, response |-> raw]

Request(method, url, cfg) == [method |-> method, url |-> url, headers |-> cfg.headers]

JsonConfig == [headers |-> [PRIVATE_TOKEN |-> AT, Content_Type |-> "application/json"]]

----------------------------------------------------------------------------
(* One call of a method: its arguments, the position of its body, the      *)
(* requests it has sent, the backend outcomes it has received, its result. *)

Idle == [op |-> "none", identifier |-> Undefined, filePath |-> Undefined,
         branchArg |-> Undefined, branchName |-> Undefined,
         pc |-> "idle", sent |-> <<>>, got |-> <<>>, result |-> Pending]

Invoke(op, identifier, filePath, branchName) ==
    [Idle EXCEPT !.op = op, !.identifier = identifier, !.filePath = filePath,
                 !.branchArg = branchName, !.branchName = branchName]

Finish(call, result) == [call EXCEPT !.pc = "done", !.result = result]

Await_Resend(call, pc, request) ==
    [call EXCEPT !.pc = pc, !.sent = Append(Append(@, request), request)]

(* await axios.get / post / put: the request leaves, the method suspends *)
Await(call, pc, request) == [call EXCEPT !.pc = pc, !.sent = Append(@, request)]

Receive(call, raw) == [call EXCEPT !.got = Append(@, raw)]

(* Methods whose URL comes from getProjectUrl, computed before the try *)
RequestProject(call, pc, suffix) ==
    LET url == getProjectUrl(call.identifier)
    IN  IF url.kind = "throw" THEN Finish(call, url)
        ELSE Await(call, pc, Request("GET", url.value.v \o suffix, config))

----------------------------------------------------------------------------
(* The mapping of a settled promise to the method's result *)

(* getProject, getBranches *)
DataResult(p) == IF p.fulfilled THEN Return(p.res.data) ELSE Throw(ApiError)

ExistsResult_AnyErrorFalse(p) ==
    IF p.fulfilled THEN Return(Bool(p.res.status = 200))
    ELSE IF p.response # Undefined THEN Return(Bool(FALSE))
    ELSE Throw(ApiError)

(* branchExists, fileExists *)
ExistsResult(p) ==
    IF p.fulfilled THEN Return(Bool(p.res.status = 200))
    ELSE IF p.response # Undefined /\ p.response.status = 404 THEN Return(Bool(FALSE))
    ELSE Throw(ApiError)

CommitResult_Any2xx(p) ==
    IF p.fulfilled THEN Return(Bool(TRUE)) ELSE Throw(ApiError)

(* postCommit, postSnippetCommit *)
CommitResult(p) ==
    IF p.fulfilled THEN Return(Bool(p.res.status = 201)) ELSE Throw(ApiError)

(* getRawFile: no else branch, the function falls off its end *)
RawFileResult(p) ==
    IF p.fulfilled
    THEN (IF p.res.status = 200 THEN Return(p.res.data) ELSE Return(Undefined))
    ELSE Throw(ApiError)

VersionResult_AnyStatus(p) ==
    IF p.fulfilled THEN Return(p.res.data) ELSE Throw(ApiError)

(* getVersion *)
VersionResult(p) ==
    IF p.fulfilled
    THEN (IF p.res.status = 200 THEN Return(p.res.data) ELSE Return(Null))
    ELSE Throw(ApiError)

----------------------------------------------------------------------------
(* Arguments the callers pass *)

ProjectId == Num(7)
SnippetId == Num(3)
BranchM == Str(<<"m">>)
BranchD == Str(<<"d">>)
FilePath == Str(<<"/", "a", "/", "b", "/">>)
P_gp == <<"g", "/", "p">>
P_gp_slashed == <<"/", "g", "/", "p", "/">>
P_ab_c == <<"a", "/", "b", " ", "c">>

Identifiers == {Str(BASE_URL \o P_gp_slashed), Undefined}

ProbeIdentifiers ==
    {Num(0), Num(7), Num(42), Str(<<"4", "2">>), Str(P_gp), Str(P_gp_slashed),
     Str(P_ab_c), Str(BASE_URL \o P_gp_slashed), Str(<<>>), Str(<<"/">>),
     Undefined, Null}

Slots == 1..MaxCalls

Set(c, call) ==
    /\ calls' = [calls EXCEPT ![c] = call]
    /\ UNCHANGED <<baseUrlArg, configuration, probe>>

----------------------------------------------------------------------------
(* The methods *)

getProject(c) ==
    /\ calls[c].pc = "idle"
    /\ \E identifier \in Identifiers :
          Set(c, RequestProject(Invoke("getProject", identifier, Undefined, Undefined),
                                "await", <<>>))

getProjectSettled(c) ==
    /\ calls[c].op = "getProject" /\ calls[c].pc = "await"
    /\ \E raw \in Backend(ProjectBodies) :
          Set(c, Finish(Receive(calls[c], raw), DataResult(Settled(raw))))

getBranches(c) ==
    /\ calls[c].pc = "idle"
    /\ \E identifier \in Identifiers :
          Set(c, RequestProject(Invoke("getBranches", identifier, Undefined, Undefined),
                                "await", S_branches))

getBranchesSettled(c) ==
    /\ calls[c].op = "getBranches" /\ calls[c].pc = "await"
    /\ \E raw \in Backend({Body}) :
          Set(c, Finish(Receive(calls[c], raw), DataResult(Settled(raw))))

branchExists(c) ==
    /\ calls[c].pc = "idle"
    /\ LET url == API_URL \o S_projects \o Template(ProjectId) \o S_branches
                  \o <<"/">> \o Template(BranchM)
       IN  Set(c, Await(Invoke("branchExists", ProjectId, Undefined, BranchM),
                        "await", Request("GET", url, config)))

branchExistsSettled(c) ==
    /\ calls[c].op = "branchExists" /\ calls[c].pc = "await"
    /\ \E raw \in Backend({Body}) :
          Set(c, Finish(Receive(calls[c], raw), ExistsResult(Settled(raw))))

fileExists(c) ==
    /\ calls[c].pc = "idle"
    /\ LET encodedFilePath == encodeURIComponent(trimSlashes(FilePath.v))
           url == API_URL \o S_projects \o Template(ProjectId) \o S_files
                  \o encodedFilePath \o S_ref \o Template(BranchM)
       IN  Set(c, Await(Invoke("fileExists", ProjectId, FilePath, BranchM),
                        "await", Request("GET", url, config)))

fileExistsSettled(c) ==
    /\ calls[c].op = "fileExists" /\ calls[c].pc = "await"
    /\ \E raw \in Backend({Body}) :
          Set(c, Finish(Receive(calls[c], raw), ExistsResult(Settled(raw))))

postCommit_SharedConfig(c) ==
    /\ calls[c].pc = "idle"
    /\ LET url == API_URL \o S_projects \o Template(ProjectId) \o S_commits
       IN  calls' = [calls EXCEPT ![c] =
                        Await(Invoke("postCommit", ProjectId, Undefined, Undefined),
                              "await", Request("POST", url, JsonConfig))]
    /\ config' = JsonConfig
    /\ UNCHANGED <<baseUrlArg, VERBOSE, BASE_URL, API_URL, AT, probe>>

postCommit(c) ==
    /\ calls[c].pc = "idle"
    /\ LET url == API_URL \o S_projects \o Template(ProjectId) \o S_commits
       IN  calls' = [calls EXCEPT ![c] =
                        Await(Invoke("postCommit", ProjectId, Undefined, Undefined),
                              "await", Request("POST", url, JsonConfig))]
    /\ UNCHANGED <<baseUrlArg, configuration, probe>>

postCommitSettled(c) ==
    /\ calls[c].op = "postCommit" /\ calls[c].pc = "await"
    /\ \E raw \in Backend({Body}) :
          Set(c, Finish(Receive(calls[c], raw), CommitResult(Settled(raw))))

postSnippetCommit(c) ==
    /\ calls[c].pc = "idle"
    /\ LET url == API_URL \o S_snippets \o Template(SnippetId)
       IN  Set(c, Await(Invoke("postSnippetCommit", SnippetId, Undefined, Undefined),
                        "await", Request("PUT", url, JsonConfig)))

postSnippetCommitSettled(c) ==
    /\ calls[c].op = "postSnippetCommit" /\ calls[c].pc = "await"
    /\ \E raw \in Backend({Body}) :
          Set(c, Finish(Receive(calls[c], raw), CommitResult(Settled(raw))))

(* getRawFile from the file path's encoding to the await of the raw GET *)
getRawFileRequest(call, branchName) ==
    LET encodedFilePath == encodeURIComponent(trimSlashes(call.filePath.v))
    IN  RequestProject([call EXCEPT !.branchName = branchName], "awaitRaw",
                       S_files \o encodedFilePath \o S_raw \o S_ref
                       \o Template(branchName))

getRawFileContinue_StaleBranch(call, p) ==
    IF p.fulfilled
    THEN getRawFileRequest(call, call.branchName)
    ELSE Finish(call, Throw(ApiError))

getRawFileContinue_IgnoreFailure(call, p) ==
    IF p.fulfilled
    THEN getRawFileRequest(call, p.res.data.default_branch)
    ELSE getRawFileRequest(call, Undefined)

(* getRawFile after the await of getProject: the default branch of the     *)
(* project, or getProject's GitlabApiError, which nothing catches          *)
getRawFileContinue(call, p) ==
    IF p.fulfilled
    THEN getRawFileRequest(call, p.res.data.default_branch)
    ELSE Finish(call, Throw(ApiError))

getRawFile(c) ==
    /\ calls[c].pc = "idle"
    /\ \E identifier \in Identifiers, branchName \in {Undefined, BranchD} :
          LET call == Invoke("getRawFile", identifier, FilePath, branchName)
          IN  Set(c, IF branchName = Undefined
                     THEN RequestProject(call, "awaitProject", <<>>)
                     ELSE getRawFileRequest(call, branchName))

getRawFileProjectSettled(c) ==
    /\ calls[c].op = "getRawFile" /\ calls[c].pc = "awaitProject"
    /\ \E raw \in Backend(ProjectBodies) :
          Set(c, getRawFileContinue(Receive(calls[c], raw), Settled(raw)))

getRawFileSettled(c) ==
    /\ calls[c].op = "getRawFile" /\ calls[c].pc = "awaitRaw"
    /\ \E raw \in Backend({Body}) :
          Set(c, Finish(Receive(calls[c], raw), RawFileResult(Settled(raw))))

getVersion(c) ==
    /\ calls[c].pc = "idle"
    /\ Set(c, Await(Invoke("getVersion", Undefined, Undefined, Undefined),
                    "await", Request("GET", API_URL \o S_version, config)))

getVersionSettled(c) ==
    /\ calls[c].op = "getVersion" /\ calls[c].pc = "await"
    /\ \E raw \in Backend({Body}) :
          Set(c, Finish(Receive(calls[c], raw), VersionResult(Settled(raw))))

(* A synchronous evaluation of getProjectUrl *)
getProjectUrlCall ==
    /\ \E identifier \in ProbeIdentifiers :
          probe' = [identifier |-> identifier,
                    resolved |-> resolveProjectIdentifier(BASE_URL, identifier),
                    out |-> getProjectUrl(identifier)]
    /\ UNCHANGED <<baseUrlArg, configuration, calls>>

----------------------------------------------------------------------------
(* Specifications *)

HostChars == {"e", "/"}
Hosts == UNION {[1..k -> HostChars] : k \in 0..MaxHost}
BaseUrlInputs == {scheme \o host : scheme \in {<<>>, HTTP, HTTPS}, host \in Hosts}
Example_http == HTTP \o <<"e", "/">>
Example_bare == <<"e">>
Token == <<"t">>

Constructed(baseUrls, verboses) ==
    \E baseUrl \in baseUrls, verbose \in verboses :
        LET this == Constructor(baseUrl, Token, verbose)
        IN  /\ baseUrlArg = baseUrl
            /\ VERBOSE = this.VERBOSE
            /\ BASE_URL = this.BASE_URL
            /\ API_URL = this.API_URL
            /\ AT = this.AT
            /\ config = this.config
            /\ calls = [c \in Slots |-> Idle]
            /\ probe = Undefined

Init == Constructed({Example_http}, {TRUE})

Next ==
    \E c \in Slots :
        \/ getProject(c) \/ getProjectSettled(c)
        \/ getBranches(c) \/ getBranchesSettled(c)
        \/ branchExists(c) \/ branchExistsSettled(c)
        \/ fileExists(c) \/ fileExistsSettled(c)
        \/ postCommit(c) \/ postCommitSettled(c)
        \/ postSnippetCommit(c) \/ postSnippetCommitSettled(c)
        \/ getRawFile(c) \/ getRawFileProjectSettled(c) \/ getRawFileSettled(c)
        \/ getVersion(c) \/ getVersionSettled(c)

Spec == Init /\ [][Next]_vars

InitUrl == Constructed(BaseUrlInputs, BOOLEAN)

NextUrl == getProjectUrlCall

SpecUrl == InitUrl /\ [][NextUrl]_vars

----------------------------------------------------------------------------
(* Vocabulary of the properties *)

IsDone(c) == calls[c].pc = "done"

IsResponse(raw) == raw # NetworkFailure

IsSuccess(raw) == IsResponse(raw) /\ raw.status \in 200..299

(* an HTTP error: a response whose status is outside 2xx *)
IsHttpError(raw) == IsResponse(raw) /\ raw.status \notin 200..299

ExistenceChecks == {"branchExists", "fileExists"}
Commits == {"postCommit", "postSnippetCommit"}
TakesIdentifier == {"getProject", "getBranches", "getRawFile"}

NeitherVariant(identifier) ==
    LET r == resolveProjectIdentifier(BASE_URL, identifier)
    IN  r.id = Undefined /\ r.path = Undefined

(* the outcome of the raw-file GET of a completed getRawFile, if it got one *)
HasRawOutcome(call) ==
    /\ call.op = "getRawFile" /\ call.pc = "done"
    /\ Len(call.got) = (IF call.branchArg = Undefined THEN 2 ELSE 1)
    /\ Len(call.sent) = Len(call.got)

RECURSIVE decodeURIComponent(_)
decodeURIComponent(s) ==
    IF s = <<>> THEN <<>>
    ELSE IF Head(s) = "%" /\ Len(s) >= 3
    THEN <<CHOOSE ch \in Reserved : PercentCode(ch) = SubSeq(s, 1, 3)>>
         \o decodeURIComponent(SubSeq(s, 4, Len(s)))
    ELSE <<Head(s)>> \o decodeURIComponent(Tail(s))

----------------------------------------------------------------------------
(* C1: a completed branchExists or fileExists returned true on status 200, *)
(* returned false on an HTTP error with status 404, and threw ApiError on  *)
(* every other HTTP error status and on a network failure.                 *)
C1_ExistenceCheckOutcome ==
    \A c \in Slots :
        (calls[c].op \in ExistenceChecks /\ IsDone(c)) =>
            LET raw == calls[c].got[1]
                result == calls[c].result
            IN  /\ Len(calls[c].got) = 1
                /\ (IsResponse(raw) /\ raw.status = 200) => result = Return(Bool(TRUE))
                /\ (IsResponse(raw) /\ raw.status = 404) => result = Return(Bool(FALSE))
                /\ (IsHttpError(raw) /\ raw.status # 404) => result = Throw(ApiError)
                /\ ~IsResponse(raw) => result = Throw(ApiError)

C1_Witness ==
    \E c, d \in Slots :
        /\ calls[c].op = "branchExists" /\ IsDone(c)
        /\ calls[c].got = <<Response(404, Body)>>
        /\ calls[c].result = Return(Bool(FALSE))
        /\ calls[d].op = "fileExists" /\ IsDone(d)
        /\ calls[d].got = <<Response(500, Body)>>
        /\ calls[d].result = Throw(ApiError)

(* C2: a completed postCommit or postSnippetCommit returned true exactly   *)
(* on status 201, false on status 200, and threw ApiError on status 500    *)
(* and on a connection failure; it returned no boolean after an error.     *)
C2_CommitOutcome ==
    \A c \in Slots :
        (calls[c].op \in Commits /\ IsDone(c)) =>
            LET raw == calls[c].got[1]
                result == calls[c].result
            IN  /\ Len(calls[c].got) = 1
                /\ result = Return(Bool(TRUE)) <=> (IsResponse(raw) /\ raw.status = 201)
                /\ (IsResponse(raw) /\ raw.status = 200) => result = Return(Bool(FALSE))
                /\ (IsResponse(raw) /\ raw.status = 500) => result = Throw(ApiError)
                /\ ~IsResponse(raw) => result = Throw(ApiError)
                /\ ~IsSuccess(raw) => result.kind = "throw"

C2_Witness ==
    \E c, d \in Slots :
        /\ calls[c].op = "postCommit" /\ IsDone(c)
        /\ calls[c].got = <<Response(201, Body)>>
        /\ calls[c].result = Return(Bool(TRUE))
        /\ calls[d].op = "postSnippetCommit" /\ IsDone(d)
        /\ calls[d].got = <<Response(200, Body)>>
        /\ calls[d].result = Return(Bool(FALSE))

(* C3: a getRawFile without a branch name sends the project GET first and  *)
(* the raw-file GET second, the second only after the project response has *)
(* arrived and with ref equal to that response's default branch, and sends *)
(* both once the lookup has succeeded; a getRawFile with a branch name     *)
(* sends no project GET.                                                   *)
C3_DefaultBranchFirst ==
    \A c \in Slots :
        (calls[c].op = "getRawFile" /\ ~NeitherVariant(calls[c].identifier)) =>
            LET call == calls[c]
                projectUrl == API_URL \o S_projects
                              \o encodeURIComponent(
                                    resolveProjectIdentifier(BASE_URL, call.identifier).path.v)
                IsRawGet(request, branch) ==
                    /\ request.method = "GET"
                    /\ StartsWith(request.url, projectUrl \o S_files)
                    /\ EndsWith(request.url, S_raw \o S_ref \o branch)
            IN  IF call.branchArg = Undefined
                THEN /\ Len(call.sent) \in 1..2
                     /\ call.sent[1] = Request("GET", projectUrl, config)
                     /\ Len(call.sent) = 2 =>
                           /\ Len(call.got) >= 1
                           /\ IsSuccess(call.got[1])
                           /\ IsRawGet(call.sent[2], call.got[1].data.default_branch.v)
                     /\ (Len(call.got) >= 1 /\ IsSuccess(call.got[1])) => Len(call.sent) = 2
                ELSE /\ Len(call.sent) = 1
                     /\ IsRawGet(call.sent[1], call.branchArg.v)

C3_Witness ==
    \E c, d \in Slots :
        /\ calls[c].op = "getRawFile" /\ calls[c].branchArg = Undefined
        /\ Len(calls[c].sent) = 2
        /\ calls[c].got[1] = Response(200, Obj(BranchD))
        /\ EndsWith(calls[c].sent[2].url, S_ref \o <<"d">>)
        /\ calls[d].op = "getRawFile" /\ calls[d].branchArg = BranchD
        /\ Len(calls[d].sent) = 1


(* C4 as stated: every completed call that reached the backend has sent    *)
(* exactly one outbound request.                                           *)
C4_SingleRequestPerCall ==
    \A c \in Slots :
        (IsDone(c) /\ calls[c].got # <<>>) => Len(calls[c].sent) = 1

(* C4 as amended: a completed call has sent exactly one request, except    *)
(* that a call failing with InvalidIdentifier has sent none and a          *)
(* getRawFile without a branch name whose project lookup succeeded has     *)
(* sent two; at no time has a call sent the same request twice, sent a     *)
(* request before the previous one settled, or sent one after a failure.   *)
C4_OneRequestPerExchange ==
    \A c \in Slots :
        LET call == calls[c]
            expected ==
                IF call.result = Throw(InvalidIdentifier) THEN 0
                ELSE IF call.op = "getRawFile" /\ call.branchArg = Undefined
                        /\ IsSuccess(call.got[1]) THEN 2
                ELSE 1
        IN  /\ IsDone(c) => (Len(call.sent) = expected /\ Len(call.got) = expected)
            /\ \A i, j \in 1..Len(call.sent) : i # j => call.sent[i] # call.sent[j]
            /\ Len(call.sent) <= Len(call.got) + 1
            /\ \A i \in 1..Len(call.got) : ~IsSuccess(call.got[i]) => Len(call.sent) <= i

C4_Witness ==
    \E c, d \in Slots :
        /\ calls[c].op = "getRawFile" /\ IsDone(c) /\ Len(calls[c].sent) = 2
        /\ calls[c].got[2] = NetworkFailure
        /\ calls[d].op = "getProject" /\ IsDone(d) /\ Len(calls[d].sent) = 1
        /\ calls[d].got = <<Response(500, Obj(BranchM))>>

(* C5: a getProject, getBranches or getRawFile (with or without a branch   *)
(* name) whose identifier resolves to neither variant has, once invoked,   *)
(* failed with InvalidIdentifier (not ApiError) and sent no request.       *)
C5_InvalidIdentifierBeforeRequest ==
    \A c \in Slots :
        (calls[c].op \in TakesIdentifier /\ NeitherVariant(calls[c].identifier)) =>
            /\ IsDone(c)
            /\ calls[c].result = Throw(InvalidIdentifier)
            /\ calls[c].result # Throw(ApiError)
            /\ calls[c].sent = <<>>

C5_Witness ==
    \E c, d \in Slots :
        /\ calls[c].op = "getRawFile" /\ calls[c].identifier = Undefined
        /\ calls[c].branchArg = Undefined
        /\ calls[c].result = Throw(InvalidIdentifier)
        /\ calls[d].op \in {"getProject", "getBranches"} /\ calls[d].identifier = Undefined
        /\ calls[d].result = Throw(InvalidIdentifier)

(* C6 as stated: a completed getVersion, or getRawFile that got an answer  *)
(* to its raw-file GET, returned an absent value for every response status *)
(* other than 200, and the body for status 200.                            *)
C6_NonOkStatusIsAbsent ==
    \A c \in Slots :
        ((calls[c].op = "getVersion" /\ IsDone(c)) \/ HasRawOutcome(calls[c])) =>
            LET raw == calls[c].got[Len(calls[c].got)]
            IN  IsResponse(raw) =>
                    IF raw.status = 200
                    THEN calls[c].result = Return(raw.data)
                    ELSE calls[c].result \in {Return(Null), Return(Undefined)}

(* C6 as amended: for every success (2xx) status other than 200 the call   *)
(* returns the absent value (null from getVersion, undefined from          *)
(* getRawFile), for status 200 it returns the body, and it returns the     *)
(* body for no other outcome; a status outside 2xx and a network failure   *)
(* fail with ApiError.                                                     *)
C6_NonOkSuccessIsAbsent ==
    \A c \in Slots :
        ((calls[c].op = "getVersion" /\ IsDone(c)) \/ HasRawOutcome(calls[c])) =>
            LET raw == calls[c].got[Len(calls[c].got)]
                absent == IF calls[c].op = "getVersion" THEN Null ELSE Undefined
            IN  /\ (IsSuccess(raw) /\ raw.status # 200) => calls[c].result = Return(absent)
                /\ (IsSuccess(raw) /\ raw.status = 200) => calls[c].result = Return(raw.data)
                /\ calls[c].result = Return(Body) => (IsResponse(raw) /\ raw.status = 200)
                /\ ~IsSuccess(raw) => calls[c].result = Throw(ApiError)

C6_Witness ==
    \E c, d \in Slots :
        /\ calls[c].op = "getVersion" /\ IsDone(c)
        /\ calls[c].got = <<Response(201, Body)>>
        /\ calls[c].result = Return(Null)
        /\ HasRawOutcome(calls[d])
        /\ calls[d].got[Len(calls[d].got)] = Response(201, Body)
        /\ calls[d].result = Return(Undefined)


(* The constructor argument without its scheme, and whether anything but   *)
(* slashes follows the scheme.                                             *)
AfterScheme(baseUrl) ==
    IF StartsWith(baseUrl, HTTPS) THEN SubSeq(baseUrl, Len(HTTPS) + 1, Len(baseUrl))
    ELSE IF StartsWith(baseUrl, HTTP) THEN SubSeq(baseUrl, Len(HTTP) + 1, Len(baseUrl))
    ELSE baseUrl

HasHost(baseUrl) == \E i \in 1..Len(AfterScheme(baseUrl)) : AfterScheme(baseUrl)[i] # "/"

StripTrailingSlashes(s) ==
    IF \A i \in 1..Len(s) : s[i] = "/" THEN <<>>
    ELSE SubSeq(s, 1, CHOOSE k \in 1..Len(s) :
                         s[k] # "/" /\ \A i \in (k + 1)..Len(s) : s[i] = "/")

Normalization(baseUrl, stored) ==
    /\ StartsWith(stored, HTTPS)
    /\ ~EndsWith(stored, <<"/">>)
    /\ StartsWith(baseUrl, HTTP) =>
          stored = HTTPS \o StripTrailingSlashes(AfterScheme(baseUrl))
    /\ (~StartsWith(baseUrl, HTTP) /\ ~StartsWith(baseUrl, HTTPS)) =>
          stored = HTTPS \o StripTrailingSlashes(baseUrl)
    /\ (StartsWith(baseUrl, HTTPS) /\ ~EndsWith(baseUrl, <<"/">>)) => stored = baseUrl
    /\ NormalizeBaseUrl(stored) = stored
    /\ baseUrl \in {Example_http, Example_bare} => stored = HTTPS \o <<"e">>

(* C7 as stated: for every constructor argument the stored base URL starts *)
(* with "https://" and has no trailing slash, "http://" is rewritten to    *)
(* "https://", a missing scheme is prepended, a normalized URL is left     *)
(* unchanged, and the API root is the base URL followed by "/api/v4".      *)
C7_NormalizedForEveryInput ==
    /\ Normalization(baseUrlArg, BASE_URL)
    /\ API_URL = BASE_URL \o API_PATH

(* C7 as amended: the same, for every constructor argument that has a      *)
(* character other than "/" after its optional scheme; for every argument  *)
(* the stored base URL starts with "https://" and the API root is the base *)
(* URL followed by "/api/v4".                                              *)
C7_NormalizedWithHost ==
    /\ HasHost(baseUrlArg) => Normalization(baseUrlArg, BASE_URL)
    /\ StartsWith(BASE_URL, HTTPS)
    /\ API_URL = BASE_URL \o API_PATH

C7_Witness ==
    /\ baseUrlArg = Example_http
    /\ BASE_URL = HTTPS \o <<"e">>
    /\ API_URL = HTTPS \o <<"e">> \o API_PATH
    /\ probe # Undefined

(* C8: getProjectUrl returns apiRoot/projects/n for the numeric-id variant *)
(* n, apiRoot/projects/ followed by the percent-encoding (no raw "/") of   *)
(* the slash-trimmed path for the path variant, and fails with             *)
(* InvalidIdentifier when neither variant is populated.                    *)
C8_ProjectUrl ==
    probe # Undefined =>
        LET r == probe.resolved
            out == probe.out
            prefix == API_URL \o S_projects
            segment == SubSeq(out.value.v, Len(prefix) + 1, Len(out.value.v))
        IN  /\ r.id # Undefined =>
                  /\ out.kind = "return"
                  /\ StartsWith(out.value.v, prefix)
                  /\ IsDigits(segment) /\ ParseInt(segment) = r.id.v
            /\ (r.id = Undefined /\ r.path # Undefined) =>
                  /\ out.kind = "return"
                  /\ StartsWith(out.value.v, prefix)
                  /\ \A i \in 1..Len(segment) : segment[i] # "/"
                  /\ decodeURIComponent(segment) = r.path.v
                  /\ ~StartsWith(r.path.v, <<"/">>) /\ ~EndsWith(r.path.v, <<"/">>)
            /\ (r.id = Undefined /\ r.path = Undefined) => out = Throw(InvalidIdentifier)
            /\ probe.identifier = Num(42) => out = Return(Str(prefix \o <<"4", "2">>))
            /\ probe.identifier = Str(P_ab_c) =>
                  out = Return(Str(prefix \o <<"a", "%", "2", "F", "b", "%", "2", "0", "c">>))

C8_Witness ==
    /\ probe # Undefined
    /\ probe.identifier = Str(BASE_URL \o P_gp_slashed)
    /\ probe.resolved.path = Str(P_gp)
    /\ probe.out = Return(Str(API_URL \o S_projects \o <<"g", "%", "2", "F", "p">>))

(* C9: no step of any operation changes a configuration field, and two     *)
(* completed calls of the same operation with the same arguments and the   *)
(* same backend outcomes have sent the same requests and have the same     *)
(* result, whatever was interleaved with them.                             *)
C9_ConfigurationImmutable ==
    /\ [][configuration' = configuration]_vars
    /\ [](\A c, d \in Slots :
            (/\ IsDone(c) /\ IsDone(d)
             /\ calls[c].op = calls[d].op
             /\ calls[c].identifier = calls[d].identifier
             /\ calls[c].branchArg = calls[d].branchArg
             /\ calls[c].got = calls[d].got) => calls[c] = calls[d])

C9_Witness ==
    \E c, d \in Slots :
        /\ calls[c].op = "postCommit" /\ IsDone(c)
        /\ calls[d].op = "getVersion" /\ IsDone(d)
        /\ calls[d].sent[1].headers = [PRIVATE_TOKEN |-> Token]
        /\ config = [headers |-> [PRIVATE_TOKEN |-> Token]]
        /\ BASE_URL = HTTPS \o <<"e">>

(* C10: a getRawFile without a branch name whose project GET failed (HTTP  *)
(* error status or network failure) has failed with ApiError and has sent  *)
(* the project GET alone.                                                  *)
C10_NoContentAfterFailedLookup ==
    \A c \in Slots :
        (/\ calls[c].op = "getRawFile" /\ calls[c].branchArg = Undefined
         /\ Len(calls[c].got) >= 1 /\ ~IsSuccess(calls[c].got[1])) =>
            /\ IsDone(c)
            /\ calls[c].result = Throw(ApiError)
            /\ Len(calls[c].sent) = 1
            /\ ~EndsWith(calls[c].sent[1].url, S_ref \o S_undefined)

C10_Witness ==
    \E c, d \in Slots :
        /\ calls[c].op = "getRawFile" /\ calls[c].branchArg = Undefined
        /\ calls[c].got = <<NetworkFailure>>
        /\ calls[c].result = Throw(ApiError)
        /\ calls[d].op = "getRawFile" /\ calls[d].branchArg = Undefined
        /\ calls[d].got = <<Response(404, Obj(BranchM))>>
        /\ calls[d].result = Throw(ApiError)

====
